---- MODULE Spec2Model ----
(***************************************************************************)
(* Verification model of regime-news-model: the Event Overlay Engine       *)
(* (src/regime_news/event_overlay.py), the Regime Policy Mapper            *)
(* (src/regime_news/regime_policy.py), their value objects                 *)
(* (src/regime_news/events_model.py), the pipeline and its request         *)
(* surfaces (src/regime_news/pipeline.py, run_pipeline.py, api_server.py), *)
(* the Watchout Flagger and the Quantile Fusion (src/regime_news/fusion.py)*)
(* the macro-calendar adapter (providers_tradingeconomics.py) and the      *)
(* price loader (src/regime_news/fmp_loader.py).                           *)
(*                                                                         *)
(* Number representation.  Python floats are modelled as exact decimals:   *)
(*   - severities and table entries in hundredths (0.85 is 85),            *)
(*   - confidences and probabilities in thousandths (0.549 is 549),        *)
(*   - the running risk multiplier in units of 1/Unit (1.00 is Unit).      *)
(* Instants are integer ticks, TicksPerDay of them to a day; a tick stands *)
(* for the smallest step of the clock (one microsecond in the source).     *)
(* Strings that the code inspects (event names, symbols, keywords) are     *)
(* sequences of one-character strings, so that upper(), strip() and the    *)
(* substring test are computed rather than assumed.                        *)
(***************************************************************************)
EXTENDS Integers, Sequences, FiniteSets, TLC

VARIABLES
    cfg,                \* EventOverlayEngine.cfg.base_risk_multiplier
    regime,             \* decide argument: RegimeState
    macro_events,       \* decide argument: Sequence[MacroEvent]
    company_events,     \* decide argument: Sequence[CompanyEvent]
    portfolio_symbols,  \* decide argument: Optional[Sequence[str]]
    clock,              \* the latest reading of the wall clock
    last,               \* the latest decide call: its clock readings, locals and result
    regime_id,          \* map_regime_to_policy argument
    regime_probs,       \* map_regime_to_policy argument (values of the dict, in order)
    policy,             \* the latest map_regime_to_policy call and its RegimeState
    sev_event,          \* _macro_severity / _tighten_stops argument
    sev_result,         \* the latest _macro_severity / _tighten_stops results
    pipe_in,            \* what a pipeline run is given: its arguments, the tables, the fit, the news
    pipe,               \* the latest pipeline run: its calls, its error or its report
    calendar,           \* the latest TradingEconomicsClient.get_calendar call
    latest_row,         \* watchouts argument: the latest row of regime_df
    news_meta,          \* watchouts argument: the news summary
    flags,              \* the latest watchouts call and its list
    regime_df,          \* regime_conditioned_quantiles argument: the hard label of each row
    ret_1d,             \* regime_conditioned_quantiles argument: the return series
    horizons,           \* regime_conditioned_quantiles argument
    out,                \* the latest regime_conditioned_quantiles result
    cache,              \* the cache directory of the price loader: key to entry
    load                \* the latest load_prices call

vars == <<cfg, regime, macro_events, company_events, portfolio_symbols, clock, last,
          regime_id, regime_probs, policy, sev_event, sev_result,
          pipe_in, pipe, calendar, latest_row, news_meta, flags,
          regime_df, ret_1d, horizons, out, cache, load>>

overlayVars == <<cfg, regime, macro_events, company_events, portfolio_symbols, clock, last>>
policyVars == <<regime_id, regime_probs, policy>>
severityVars == <<sev_event, sev_result>>
pipelineVars == <<pipe_in, pipe, calendar>>
watchVars == <<latest_row, news_meta, flags>>
fusionVars == <<regime_df, ret_1d, horizons, out>>
loaderVars == <<cache, load>>

----------------------------------------------------------------------------
(* Bounds of the model *)

TicksPerDay == 2
MaxClock == 1
MaxMacro == 2
MaxCompany == 1

----------------------------------------------------------------------------
(* Strings as character sequences *)

LowerLetters == <<"a","b","c","d","e","f","g","h","i","j","k","l","m",
                  "n","o","p","q","r","s","t","u","v","w","x","y","z">>
UpperLetters == <<"A","B","C","D","E","F","G","H","I","J","K","L","M",
                  "N","O","P","Q","R","S","T","U","V","W","X","Y","Z">>

\* the upper-case form of each lower-case letter
UpperOf == [c \in {LowerLetters[i] : i \in DOMAIN LowerLetters} |->
              UpperLetters[CHOOSE i \in DOMAIN LowerLetters : LowerLetters[i] = c]]

UpperChar(c) == IF c \in DOMAIN UpperOf THEN UpperOf[c] ELSE c

\* str.upper()
Upper(s) == [i \in DOMAIN s |-> UpperChar(s[i])]

\* str.strip(), for the blank character
RECURSIVE LStrip(_)
LStrip(s) == IF s # <<>> /\ Head(s) = " " THEN LStrip(Tail(s)) ELSE s

RECURSIVE RStrip(_)
RStrip(s) ==
    IF s # <<>> /\ s[Len(s)] = " " THEN RStrip(SubSeq(s, 1, Len(s) - 1)) ELSE s

Strip(s) == RStrip(LStrip(s))

\* k in name
Contains(name, k) ==
    \E i \in 1..(Len(name) - Len(k) + 1) : SubSeq(name, i, i + Len(k) - 1) = k

----------------------------------------------------------------------------
(* OverlayConfig *)

macro_window_days == 3
company_window_days == 7

high_severity_keywords ==
    { <<"F","O","M","C">>, <<"F","E","D">>, <<"R","A","T","E">>,
      <<"I","N","T","E","R","E","S","T">>,
      <<"C","P","I">>, <<"I","N","F","L","A","T","I","O","N">>,
      <<"N","F","P">>, <<"N","O","N","F","A","R","M">>, <<"J","O","B","S">>,
      <<"U","N","E","M","P","L","O","Y","M","E","N","T">>,
      <<"G","D","P">> }

tighten_stop_keywords ==
    { <<"F","O","M","C">>, <<"F","E","D">>, <<"R","A","T","E">>,
      <<"C","P","I">>, <<"I","N","F","L","A","T","I","O","N">>,
      <<"N","F","P">>, <<"N","O","N","F","A","R","M">> }

\* OverlayConfig.__post_init__: the table used when none is supplied (hundredths)
DefaultBaseRiskMultiplier ==
    [risk_on |-> 100, late_cycle |-> 85, transition |-> 70, risk_off |-> 50]

\* A table supplied by the caller: OverlayConfig(base_risk_multiplier={...})
CustomBaseRiskMultiplier == [risk_on |-> 200, risk_off |-> 5]

ConfigSet == {DefaultBaseRiskMultiplier, CustomBaseRiskMultiplier}

----------------------------------------------------------------------------
(* Decimal arithmetic of the running multiplier *)

Unit == 100 * 100 * 100 * 100

\* a table entry (hundredths) as a multiplier
FromHundredths(h) == h * (Unit \div 100)

\* base_mult *= f, f in hundredths; exact, since at most three factors are applied
Times(m, f) == (m \div 100) * f

Min2(a, b) == IF b < a THEN b ELSE a
Max2(a, b) == IF b > a THEN b ELSE a

\* f"{x:.2f}" of a value in thousandths: the nearest hundredth
Fmt2Thousandths(x) == (x + 5) \div 10

\* f"{x:.2f}" of a multiplier: the nearest hundredth
Fmt2Multiplier(m) == (m + (Unit \div 200)) \div (Unit \div 100)

----------------------------------------------------------------------------
(* EventOverlayEngine *)

NoTime == -1    \* datetime_utc is None

\* _utc_now: the readings the wall clock can give after the reading `prev`
_utc_now(prev) == prev..MaxClock

\* timedelta(days=days)
timedelta(days) == days * TicksPerDay

\* mutant of InWindow: the end of the window excluded
InWindowExclusiveEnd(e, now, days) ==
    /\ e.datetime_utc # NoTime
    /\ now <= e.datetime_utc
    /\ e.datetime_utc < now + timedelta(days)

\* the test of _within_window: dt and now <= dt <= end
InWindow(e, now, days) ==
    /\ e.datetime_utc # NoTime
    /\ now <= e.datetime_utc
    /\ e.datetime_utc <= now + timedelta(days)

\* sorted(out, key=lambda x: x.datetime_utc): a stable sort
RECURSIVE InsertByTime(_, _)
InsertByTime(sorted, e) ==
    IF sorted = <<>> THEN <<e>>
    ELSE IF sorted[Len(sorted)].datetime_utc <= e.datetime_utc
         THEN Append(sorted, e)
         ELSE Append(InsertByTime(SubSeq(sorted, 1, Len(sorted) - 1), e),
                     sorted[Len(sorted)])

RECURSIVE SortedByTime(_)
SortedByTime(s) ==
    IF s = <<>> THEN <<>>
    ELSE InsertByTime(SortedByTime(SubSeq(s, 1, Len(s) - 1)), s[Len(s)])

\* _within_window, with the clock reading `now` it took
_within_window(events, days, now) ==
    SortedByTime(SelectSeq(events, LAMBDA e : InWindow(e, now, days)))

\* int(e.importance or 1): 0 (like None) is falsy and becomes 1
ImportanceOf(e) == IF e.importance = 0 THEN 1 ELSE e.importance

\* {1: 0.25, 2: 0.55, 3: 0.85}.get(imp, 0.35)
SeverityBase(imp) ==
    CASE imp = 1 -> 25
      [] imp = 2 -> 55
      [] imp = 3 -> 85
      [] OTHER -> 35

\* _macro_severity (hundredths)
_macro_severity(e) ==
    LET base == SeverityBase(ImportanceOf(e))
        name == Upper(e.event)
    IN  IF \E k \in high_severity_keywords : Contains(name, k)
        THEN Min2(100, base + 15)
        ELSE base

\* mutant of _tighten_stops: decided by the severity score
TightenStopsBySeverity(events) ==
    \E i \in DOMAIN events : _macro_severity(events[i]) >= 70

\* _tighten_stops
_tighten_stops(events) ==
    \E i \in DOMAIN events :
        /\ ~(ImportanceOf(events[i]) < 2)
        /\ \E k \in tighten_stop_keywords : Contains(Upper(events[i].event), k)

\* max(upcoming_macro, key=self._macro_severity): the first event of maximal key
WorstIndex(events) ==
    LET key == [i \in DOMAIN events |-> _macro_severity(events[i])]
    IN  CHOOSE i \in DOMAIN events :
            /\ \A j \in DOMAIN events : key[j] <= key[i]
            /\ \A j \in 1..(i - 1) : key[j] < key[i]

\* mutant of SeedMultiplier: the running multiplier kept from the previous call
SeedMultiplierCarried(name) ==
    IF last.called THEN last.risk_multiplier
    ELSE FromHundredths(IF name \in DOMAIN cfg THEN cfg[name] ELSE 75)

\* mutant of SeedMultiplier: an unmapped regime name seeded with 1.50
SeedMultiplierHighFallback(name) ==
    FromHundredths(IF name \in DOMAIN cfg THEN cfg[name] ELSE 150)

\* cfg.base_risk_multiplier.get(regime.regime_name, 0.75)
SeedMultiplier(name) ==
    FromHundredths(IF name \in DOMAIN cfg THEN cfg[name] ELSE 75)


\* mutant of LowConfidence: the threshold moved down to 0.50
LowConfidenceBelowHalf(conf) == conf < 500

\* mutant of LowConfidence: 0.55 itself counted as low
LowConfidenceInclusive(conf) == conf <= 550

\* if regime.confidence < 0.55
LowConfidence(conf) == conf < 550

\* mutant of Clamp: the upper bound left out
ClampLowerOnly(m) == Max2(FromHundredths(10), m)

\* max(0.10, min(base_mult, 1.25))
Clamp(m) == Max2(FromHundredths(10), Min2(m, FromHundredths(125)))

\* one line of the audit trail, with the values formatted into it
Note(tag, name, event, n, a, b, syms) ==
    [tag |-> tag, regime |-> name, event |-> event, n |-> n, a |-> a, b |-> b,
     impacted |-> syms]

Line(tag) == Note(tag, "", <<>>, 0, 0, 0, {})

\* mutant of GateRule: the any-regime rule tried first
GateRuleSeverityFirst(name, worst_sev) ==
    IF worst_sev >= 85 THEN "very_high"
    ELSE IF name = "risk_off" /\ worst_sev >= 70 THEN "risk_off"
    ELSE IF name = "transition" /\ worst_sev >= 70 THEN "transition"
    ELSE "none"

\* the gating rules of the macro overlay: which rule fires for this regime and severity
GateRule(name, worst_sev) ==
    IF name = "risk_off" /\ worst_sev >= 70 THEN "risk_off"
    ELSE IF name = "transition" /\ worst_sev >= 70 THEN "transition"
    ELSE IF worst_sev >= 85 THEN "very_high"
    ELSE "none"

\* ---- Macro overlay ----
MacroOverlay(reg, upcoming_macro, base_mult) ==
    IF upcoming_macro # <<>>
    THEN
        LET worst == upcoming_macro[WorstIndex(upcoming_macro)]
            worst_sev == _macro_severity(worst)
            tighten == _tighten_stops(upcoming_macro)
            rule == GateRule(reg.regime_name, worst_sev)
            head == <<Note("Macro", "", worst.event, Len(upcoming_macro),
                           worst.importance, worst_sev, {})>>
                    \o (IF tighten THEN <<Line("Tighten stops")>> ELSE <<>>)
        IN  [worst_sev |-> worst_sev,
             tighten_stops |-> tighten,
             allow_new |-> rule \notin {"risk_off", "transition"},
             base_mult |->
                 CASE rule = "risk_off" -> Times(base_mult, 70)
                   [] rule = "transition" -> Times(base_mult, 80)
                   [] rule = "very_high" -> Times(base_mult, 85)
                   [] OTHER -> base_mult,
             notes |->
                 CASE rule = "risk_off" -> Append(head, Line("Risk-off + high-severity macro"))
                   [] rule = "transition" -> Append(head, Line("Transition + high-severity macro"))
                   [] rule = "very_high" -> Append(head, Line("Very high macro severity"))
                   [] OTHER -> head]
    ELSE
        [worst_sev |-> 0,
         tighten_stops |-> FALSE,
         allow_new |-> TRUE,
         base_mult |-> base_mult,
         notes |-> <<Line("No macro events")>>]

\* symset is None (no filtering) when portfolio_symbols is None or empty
NoSymset(symbols) == symbols = <<>>

\* {s.upper().strip() for s in portfolio_symbols if s and s.strip()}
Symset(symbols) ==
    { Strip(Upper(symbols[i])) :
        i \in { j \in DOMAIN symbols : symbols[j] # <<>> /\ Strip(symbols[j]) # <<>> } }

\* symset is None or e.symbol in symset
Relevant(e, symbols) == NoSymset(symbols) \/ e.symbol \in Symset(symbols)

\* ---- Company overlay (earnings-centric) ----
CompanyOverlay(reg, upcoming_company, symbols, base_mult) ==
    IF upcoming_company # <<>>
    THEN
        LET relevant == SelectSeq(upcoming_company, LAMBDA e : Relevant(e, symbols))
            earnings == SelectSeq(relevant, LAMBDA e : e.event_type = "earnings")
            impacted == { earnings[i].symbol : i \in DOMAIN earnings }
            head == <<Note("Earnings", "", <<>>, Len(earnings), 0, 0, impacted)>>
        IN  IF earnings # <<>>
            THEN
                IF reg.regime_name \in {"late_cycle", "transition"}
                THEN [base_mult |-> Times(base_mult, 90),
                      notes |-> Append(head, Line("Late-cycle/Transition + earnings"))]
                ELSE IF reg.regime_name = "risk_off"
                THEN [base_mult |-> Times(base_mult, 85),
                      notes |-> Append(head, Line("Risk-off + earnings"))]
                ELSE [base_mult |-> base_mult, notes |-> head]
            ELSE [base_mult |-> base_mult,
                  notes |-> <<Note("Company events (no earnings)", "", <<>>,
                                   Len(relevant), 0, 0, {})>>]
    ELSE [base_mult |-> base_mult, notes |-> <<Line("No company events")>>]

\* decide, with the two clock readings its _within_window calls took
decide(reg, macros, companies, symbols, now_macro, now_company) ==
    LET seed == SeedMultiplier(reg.regime_name)
        upcoming_macro == _within_window(macros, macro_window_days, now_macro)
        upcoming_company == _within_window(companies, company_window_days, now_company)
        m == MacroOverlay(reg, upcoming_macro, seed)
        c == CompanyOverlay(reg, upcoming_company, symbols, m.base_mult)
        low == LowConfidence(reg.confidence)
        after_conf == IF low THEN Times(c.base_mult, 92) ELSE c.base_mult
    IN  [called |-> TRUE,
         now_macro |-> now_macro,
         now_company |-> now_company,
         upcoming_macro |-> upcoming_macro,
         upcoming_company |-> upcoming_company,
         worst_sev |-> m.worst_sev,
         seed |-> seed,
         after_macro |-> m.base_mult,
         after_company |-> c.base_mult,
         after_conf |-> after_conf,
         allow_new_positions |-> m.allow_new,
         risk_multiplier |-> Clamp(after_conf),
         tighten_stops |-> m.tighten_stops,
         notes |-> <<Note("Regime", reg.regime_name, <<>>, 0,
                          Fmt2Thousandths(reg.confidence), Fmt2Multiplier(seed), {})>>
                   \o m.notes \o c.notes
                   \o (IF low THEN <<Line("Low regime confidence")>> ELSE <<>>)]

\* no decide call has been made yet
NoCall ==
    [called |-> FALSE, now_macro |-> 0, now_company |-> 0,
     upcoming_macro |-> <<>>, upcoming_company |-> <<>>, worst_sev |-> 0,
     seed |-> 0, after_macro |-> 0, after_company |-> 0, after_conf |-> 0,
     allow_new_positions |-> TRUE, risk_multiplier |-> 0, tighten_stops |-> FALSE,
     notes |-> <<>>]

\* EventOverlayDecision: the four fields decide returns
Decision(call) ==
    [allow_new_positions |-> call.allow_new_positions,
     risk_multiplier |-> call.risk_multiplier,
     tighten_stops |-> call.tighten_stops,
     notes |-> call.notes]

----------------------------------------------------------------------------
(* Inputs of the overlay engine *)

\* the ends of the two windows of a call made at instant 0
MacroEnd0 == timedelta(macro_window_days)
CompanyEnd0 == timedelta(company_window_days)

MacroEvent(event, datetime_utc, importance) ==
    [event |-> event, datetime_utc |-> datetime_utc, importance |-> importance]

CompanyEvent(symbol, event_type, datetime_utc) ==
    [symbol |-> symbol, event_type |-> event_type, datetime_utc |-> datetime_utc]

MacroPool ==
    { MacroEvent(<<"F","e","d"," ","R","a","t","e">>, MacroEnd0 + 1, 3),
      MacroEvent(<<"G","D","P">>, MacroEnd0, 2),
      MacroEvent(<<"c","p","i">>, 0, 1) }

CompanyPool ==
    { CompanyEvent(<<"A","B">>, "earnings", CompanyEnd0),
      CompanyEvent(<<"a","b">>, "earnings", 1),
      CompanyEvent(<<"A","B">>, "dividends", CompanyEnd0 + 1) }

\* portfolio_symbols: absent or empty, ["ab", " "], [" EF"]
SymbolLists ==
    { <<>>, << <<"a","b">>, <<" ">> >>, << <<" ","E","F">> >> }

RegimeNames == {"risk_on", "late_cycle", "transition", "risk_off", "crisis"}

Confidences == {549, 550}

RegimeStates == [regime_name : RegimeNames, confidence : Confidences]

SeqsUpTo(S, n) == UNION { [1..k -> S] : k \in 0..n }

----------------------------------------------------------------------------------------------------------------------------------------
(* Regime Policy Mapper *)

MaxOfSeq(q) == CHOOSE x \in {q[i] : i \in DOMAIN q} : \A i \in DOMAIN q : q[i] <= x

\* _max_prob (thousandths)
_max_prob(probs) == IF probs = <<>> THEN 0 ELSE MaxOfSeq(probs)

mapping_3 == (0 :> "risk_on") @@ (1 :> "late_cycle") @@ (2 :> "risk_off")

mapping_2 == (0 :> "risk_on") @@ (1 :> "risk_off")

\* map_regime_to_policy
map_regime_to_policy(id, probs) ==
    LET conf == _max_prob(probs)
        name ==
            IF conf < 600 THEN "transition"
            ELSE IF id \in DOMAIN mapping_3 THEN mapping_3[id]
            ELSE IF id \in DOMAIN mapping_2 THEN mapping_2[id]
            ELSE "transition"
    IN  [called |-> TRUE, regime_name |-> name, confidence |-> conf, regime_id |-> id]

----------------------------------------------------------------------------
(* Watchout Flagger (src/regime_news/fusion.py).  Volatilities and the     *)
(* drawdown are in hundredths, posteriors in thousandths.  A news summary   *)
(* is a record; its topics mapping is the sequence of its (topic, count)    *)
(* items in iteration order, and error is "" when the key is absent.        *)

Flag(kind, topic) == [kind |-> kind, topic |-> topic]

\* mutant of UncertaintyRising: 0.60 itself counted as mixed
UncertaintyRisingInclusive(probs) == probs # <<>> /\ MaxOfSeq(probs) <= 600

\* p_cols non-empty and float(latest_row[p_cols].max()) < 0.60
UncertaintyRising(probs) == probs # <<>> /\ MaxOfSeq(probs) < 600

\* float(latest_row["vol_20d"]) > float(latest_row["vol_60d"]) * 1.15
VolSpiking(vol_20d, vol_60d) == vol_20d * 100 > vol_60d * 115

\* float(latest_row["dd_252d"]) < -0.20
DeepDrawdown(dd_252d) == dd_252d < 0 - 20

\* news_meta.get("news_risk", 0) >= 2
RiskHeadlines(news_risk) == news_risk >= 2

\* for k, v in topics.items(): if v >= 2: flags.append(...)
RECURSIVE TopicFlags(_)
TopicFlags(topics) ==
    IF topics = <<>> THEN <<>>
    ELSE (IF Head(topics).count >= 2
          THEN <<Flag("News topic cluster", Head(topics).topic)>>
          ELSE <<>>) \o TopicFlags(Tail(topics))

watchouts(row, meta) ==
    (IF UncertaintyRising(row.probs)
     THEN <<Flag("Regime uncertainty rising", "")>> ELSE <<>>)
    \o (IF VolSpiking(row.vol_20d, row.vol_60d)
        THEN <<Flag("Short-term volatility is spiking", "")>> ELSE <<>>)
    \o (IF DeepDrawdown(row.dd_252d)
        THEN <<Flag("In a deep drawdown zone", "")>> ELSE <<>>)
    \o (IF RiskHeadlines(meta.news_risk)
        THEN <<Flag("Multiple risk headlines recently", "")>> ELSE <<>>)
    \o TopicFlags(meta.topics)

NewsSummary(news_sentiment, news_risk, topics, error) ==
    [news_sentiment |-> news_sentiment, news_risk |-> news_risk,
     topics |-> topics, error |-> error]

TopicItem(topic, count) == [topic |-> topic, count |-> count]

----------------------------------------------------------------------------
(* run_pipeline (src/regime_news/pipeline.py) and its request surfaces     *)
(* (run_pipeline.py, api_server.py).  A price table is modelled by its row  *)
(* count over consecutive trading days ending on the as-of day; the fit and *)
(* the news collaborator are given by what they return or throw.            *)

MinRows == 60
DefaultRegimes == 3
CliDefaultRegimes == 4
drawdown_window == 252

\* mutant of ValidRegimes: the permissive variant, any count from 2 up
ValidRegimesPermissive(n) == n >= 2

\* n_regimes in (2, 3)
ValidRegimes(n) == n \in {2, 3}

\* mutant of TooFewRows: a table of 59 rows let through
TooFewRowsBelow59(rows) == rows < MinRows - 1

\* len(table) < 60
TooFewRows(rows) == rows < MinRows

\* build_features: rows whose 252-day drawdown is defined and whose date has a
\* market return (the market table's first row has none); infinite or
\* undefined rows are dropped, so the returned series has no gaps
build_features(px_rows, mkt_rows) ==
    LET own == Max2(0, px_rows - (drawdown_window - 1))
    IN  IF mkt_rows > 0 THEN Min2(own, mkt_rows - 1) ELSE own

\* ret_1d.loc[feats.index].dropna() and feats.loc[ret_1d.index]: the rows of
\* the feature table whose return is defined
AlignedRows(feats_rows, undefined_returns) == feats_rows - undefined_returns

NoError ==
    [kind |-> "", stage |-> "", has_got |-> FALSE, got |-> 0,
     has_need |-> FALSE, need |-> 0]

\* ValueError("n_regimes must be 2 or 3 during training ...")
ConfigError ==
    [kind |-> "ValueError", stage |-> "n_regimes", has_got |-> FALSE, got |-> 0,
     has_need |-> FALSE, need |-> 0]

\* RuntimeError raised by load_prices
LoadError(stage) ==
    [kind |-> "RuntimeError", stage |-> stage, has_got |-> FALSE, got |-> 0,
     has_need |-> FALSE, need |-> 0]

\* ValueError(f"Not enough ... Need >= 60 rows, got {n}.")
RowsError(stage, got) ==
    [kind |-> "ValueError", stage |-> stage, has_got |-> TRUE, got |-> got,
     has_need |-> TRUE, need |-> MinRows]

\* ValueError(f"After cleaning/alignment, not enough rows ... Got {n} rows.")
AlignedRowsError(got) ==
    [kind |-> "ValueError", stage |-> "aligned", has_got |-> TRUE, got |-> got,
     has_need |-> FALSE, need |-> 0]

\* fit_gmm_regimes: the number of rows whose arg-max component is k, for each
\* of the n components; component 0 takes first_cluster rows, the others share
\* the rest, the last one taking the remainder and the latest row
ClusterSizes(n, rows, first_cluster) ==
    LET rest == rows - first_cluster
        share == rest \div (n - 1)
    IN  [k \in 1..n |->
            IF k = 1 THEN first_cluster
            ELSE IF k = n THEN rest - (n - 2) * share
            ELSE share]

\* regime_df["regime"].value_counts().sort_index(): the labels that occur
regime_counts(sizes) ==
    { [label |-> k - 1, count |-> sizes[k]] : k \in { j \in DOMAIN sizes : sizes[j] > 0 } }

\* int(regime_counts.min()) if len(regime_counts) else 0
min_regime_size(counts) ==
    IF counts = {} THEN 0
    ELSE CHOOSE c \in { x.count : x \in counts } : \A x \in counts : c <= x.count

\* frac_min = min_regime_size / len(regime_df); frac_min < 0.05
Imbalanced(min_size, rows) == min_size * 20 < rows

NoWarning == [set |-> FALSE, min_regime_size |-> 0, rows |-> 0]

Warning(min_size, rows) ==
    IF rows > 0 /\ Imbalanced(min_size, rows)
    THEN [set |-> TRUE, min_regime_size |-> min_size, rows |-> rows]
    ELSE NoWarning

\* mutant of NewsStep: the handler removed, the summary used whatever happened
NewsStepUnguarded(news) == news.summary

\* the try block around fetch_google_news_rss, score_articles and summarize
NewsStep(news) ==
    IF news.throws # ""
    THEN NewsSummary(0, 0, <<>>, news.throws)
    ELSE news.summary

\* q[h]: the rows whose h-day forward return is defined
QuantileRows(rows, h) == Max2(0, rows - h)

NoReport ==
    [ticker |-> <<>>, asof |-> 0, regime |-> 0, regime_probs |-> <<>>,
     expected_ranges_logret |-> [d5 |-> 0, d20 |-> 0],
     news |-> NewsSummary(0, 0, <<>>, ""), watchouts |-> <<>>, n_rows_used |-> 0,
     n_regimes_used |-> 0, regime_counts |-> {}, min_regime_size |-> 0,
     warning |-> NoWarning]

\* the report of a run that fitted n clusters on rows rows; asof is the last
\* day of the table, the latest row belongs to the last component
Report(ticker, n, rows, asof, sizes, latest, meta) ==
    [ticker |-> ticker,
     asof |-> asof,
     regime |-> n - 1,
     regime_probs |-> latest.probs,
     expected_ranges_logret |->
         [d5 |-> QuantileRows(rows, 5), d20 |-> QuantileRows(rows, 20)],
     news |-> meta,
     watchouts |-> watchouts(latest, meta),
     n_rows_used |-> rows,
     n_regimes_used |-> n,
     regime_counts |-> regime_counts(sizes),
     min_regime_size |-> min_regime_size(regime_counts(sizes)),
     warning |-> Warning(min_regime_size(regime_counts(sizes)), rows)]

Raised(error, fetches) ==
    [outcome |-> "raised", error |-> error, fetches |-> fetches,
     fit_called |-> FALSE, report |-> NoReport]

\* the posterior of the latest row: its own component holds p_max, component 0
\* the rest
LatestRow(n, latest) ==
    [probs |-> [k \in 1..n |->
                   IF k = n THEN latest.p_max
                   ELSE IF k = 1 THEN 1000 - latest.p_max ELSE 0],
     vol_20d |-> latest.vol_20d, vol_60d |-> latest.vol_60d,
     dd_252d |-> latest.dd_252d]

run_pipeline(ticker, n_regimes, inp) ==
    IF ~ValidRegimes(n_regimes) THEN Raised(ConfigError, <<>>)
    ELSE IF ~inp.px.ok THEN Raised(LoadError("target"), <<"prices:target">>)
    ELSE IF ~inp.mkt.ok
    THEN Raised(LoadError("market"), <<"prices:target", "prices:market">>)
    ELSE
      LET loads == <<"prices:target", "prices:market">>
          feats_rows == build_features(inp.px.rows, inp.mkt.rows)
          rows == AlignedRows(feats_rows, 0)
      IN  IF TooFewRows(inp.px.rows) THEN Raised(RowsError("target", inp.px.rows), loads)
          ELSE IF TooFewRows(inp.mkt.rows)
          THEN Raised(RowsError("market", inp.mkt.rows), loads)
          ELSE IF TooFewRows(feats_rows) THEN Raised(RowsError("features", feats_rows), loads)
          ELSE IF TooFewRows(rows) THEN Raised(AlignedRowsError(rows), loads)
          ELSE
            [outcome |-> "returned",
             error |-> NoError,
             fetches |-> Append(loads, "news"),
             fit_called |-> TRUE,
             report |-> Report(ticker, n_regimes, rows, inp.px.rows,
                               ClusterSizes(n_regimes, rows, inp.first_cluster),
                               LatestRow(n_regimes, inp.latest),
                               NewsStep(inp.news))]

\* no run yet
NoRun ==
    [called |-> FALSE, surface |-> "", n_regimes |-> 0, outcome |-> "",
     error |-> NoError, fetches |-> <<>>, fit_called |-> FALSE, report |-> NoReport,
     delivered |-> FALSE, status_code |-> 0]

\* a run made through a surface: what the surface delivered and, for the HTTP
\* surface, the status of the response
RunRecord(surface, n_regimes, r) ==
    [called |-> TRUE, surface |-> surface, n_regimes |-> n_regimes,
     outcome |-> r.outcome, error |-> r.error, fetches |-> r.fetches,
     fit_called |-> r.fit_called, report |-> r.report,
     delivered |-> r.outcome = "returned",
     status_code |-> IF surface # "api" THEN 0
                     ELSE IF r.outcome = "returned" THEN 200 ELSE 500]

----------------------------------------------------------------------------
(* TradingEconomicsClient.get_calendar                                      *)
(* (src/regime_news/providers_tradingeconomics.py)                          *)

\* importance is None or importance in (1, 2, 3)
ValidImportance(importance) == ~importance.given \/ importance.value \in {1, 2, 3}

\* int(row.get("Importance") or row.get("importance") or 1), then
\* imp if imp in (1, 2, 3) else 1
RowImportance(raw) ==
    LET imp == IF raw = 0 THEN 1 ELSE raw
    IN  IF imp \in {1, 2, 3} THEN imp ELSE 1

\* the rows whose date parses, in order
RECURSIVE ParseRows(_)
ParseRows(rows) ==
    IF rows = <<>> THEN <<>>
    ELSE (IF Head(rows).date_ok
          THEN <<[importance |-> RowImportance(Head(rows).importance)]>>
          ELSE <<>>) \o ParseRows(Tail(rows))

get_calendar(importance, response) ==
    IF ~ValidImportance(importance)
    THEN [called |-> TRUE, importance |-> importance, requests |-> 0,
          outcome |-> "ValueError", events |-> <<>>]
    ELSE IF response.status_code # 200 \/ ~response.is_list
    THEN [called |-> TRUE, importance |-> importance, requests |-> 1,
          outcome |-> "RuntimeError", events |-> <<>>]
    ELSE [called |-> TRUE, importance |-> importance, requests |-> 1,
          outcome |-> "returned", events |-> ParseRows(response.rows)]

NoCalendarCall ==
    [called |-> FALSE, importance |-> [given |-> FALSE, value |-> 0], requests |-> 0,
     outcome |-> "", events |-> <<>>]

----------------------------------------------------------------------------
(* Quantile Fusion (src/regime_news/fusion.py).  A series is a sequence of  *)
(* cells, a cell being a number or NaN; row t of the source is position     *)
(* t + 1.  Quantiles are in hundredths of the unit of the returns.          *)

NaN == [nan |-> TRUE, v |-> 0]
Num(x) == [nan |-> FALSE, v |-> x]

\* Series.shift(periods): cell i takes the value of cell i - periods
shift(s, periods) ==
    [i \in DOMAIN s |-> IF (i - periods) \in DOMAIN s THEN s[i - periods] ELSE NaN]

RECURSIVE SumCells(_, _, _)
SumCells(s, lo, hi) == IF lo > hi THEN 0 ELSE s[lo].v + SumCells(s, lo + 1, hi)

\* Series.rolling(window).sum(): defined where the window is full and holds
\* no NaN
rolling_sum(s, window) ==
    [i \in DOMAIN s |->
        IF i >= window /\ \A j \in (i - window + 1)..i : ~s[j].nan
        THEN Num(SumCells(s, i - window + 1, i))
        ELSE NaN]

\* mutant of forward_log_return: the window started on the current day
ForwardFromToday(ret, horizon) == shift(rolling_sum(ret, horizon), 0 - (horizon - 1))

\* ret_1d.shift(-1).rolling(horizon).sum().shift(-(horizon - 1))
forward_log_return(ret, horizon) ==
    shift(rolling_sum(shift(ret, 0 - 1), horizon), 0 - (horizon - 1))

RECURSIVE InsertSorted(_, _)
InsertSorted(sorted, x) ==
    IF sorted = <<>> THEN <<x>>
    ELSE IF x < Head(sorted) THEN <<x>> \o sorted
    ELSE <<Head(sorted)>> \o InsertSorted(Tail(sorted), x)

RECURSIVE SortedValues(_, _)
\* the values of the cells at the positions rows, ascending
SortedValues(s, rows) ==
    IF rows = {} THEN <<>>
    ELSE LET i == CHOOSE x \in rows : TRUE
         IN  InsertSorted(SortedValues(s, rows \ {i}), s[i].v)

\* Series.quantile(q), linear interpolation between the two nearest ranks;
\* p in hundredths, the result in hundredths
quantile(sorted, p) ==
    LET pos == p * (Len(sorted) - 1)
        lo == (pos \div 100) + 1
        hi == Min2(lo + 1, Len(sorted))
    IN  sorted[lo] * 100 + (pos % 100) * (sorted[hi] - sorted[lo])

\* one horizon of regime_conditioned_quantiles: the forward returns, the rows
\* dropna() keeps, and the quantiles of each regime label that still has rows
QuantilesAt(labels, ret, h) ==
    LET fwd == forward_log_return(ret, h)
        kept == { i \in DOMAIN labels : i \in DOMAIN fwd /\ ~fwd[i].nan }
    IN  [horizon |-> h,
         fwd |-> fwd,
         kept |-> kept,
         groups |->
            { [regime |-> g,
               rows |-> { i \in kept : labels[i] = g },
               q05 |-> quantile(SortedValues(fwd, { i \in kept : labels[i] = g }), 5),
               q50 |-> quantile(SortedValues(fwd, { i \in kept : labels[i] = g }), 50),
               q95 |-> quantile(SortedValues(fwd, { i \in kept : labels[i] = g }), 95)]
              : g \in { labels[i] : i \in kept } }]

regime_conditioned_quantiles(labels, ret, hs) ==
    [k \in DOMAIN hs |-> QuantilesAt(labels, ret, hs[k])]

----------------------------------------------------------------------------
(* Price loader (src/regime_news/fmp_loader.py).  A table is the sequence   *)
(* of its dates; the raw response carries 0 for a date that does not parse. *)
(* The cache directory maps a file name, one per key, to an entry.          *)

NoEntry == [exists |-> FALSE, table |-> <<>>]
Entry(table) == [exists |-> TRUE, table |-> table]

\* ticker.upper().strip()
NormalTicker(ticker) == Strip(Upper(ticker))

\* the name part of _cache_path: ticker.upper()
_cache_path(ticker) == Upper(ticker)

\* pd.to_datetime(errors="coerce"), dropna and sort_values("date")
NormalTable(raw) ==
    SortedValues([i \in DOMAIN raw |-> Num(raw[i])], { i \in DOMAIN raw : raw[i] # 0 })

Failed(key, use_cache, offline, requests, kind) ==
    [called |-> TRUE, key |-> key, use_cache |-> use_cache, offline |-> offline,
     requests |-> requests, wrote |-> FALSE, outcome |-> kind, table |-> <<>>]

Loaded(key, use_cache, offline, requests, wrote, table) ==
    [called |-> TRUE, key |-> key, use_cache |-> use_cache, offline |-> offline,
     requests |-> requests, wrote |-> wrote, outcome |-> "returned", table |-> table]

\* load_prices against the cache directory files: the call's record
load_prices(files, ticker, use_cache, offline, api_key, response) ==
    LET key == _cache_path(NormalTicker(ticker))
        cached == IF use_cache /\ files[key].exists THEN files[key] ELSE NoEntry
    IN  IF offline
        THEN IF ~cached.exists THEN Failed(key, use_cache, offline, 0, "RuntimeError")
             ELSE Loaded(key, use_cache, offline, 0, FALSE, cached.table)
        ELSE IF ~api_key
        THEN IF cached.exists THEN Loaded(key, use_cache, offline, 0, FALSE, cached.table)
             ELSE Failed(key, use_cache, offline, 0, "RuntimeError")
        ELSE IF response.status_code # 200
        THEN Failed(key, use_cache, offline, 1, "HTTPError")
        ELSE IF response.rows = <<>>
        THEN Failed(key, use_cache, offline, 1, "RuntimeError")
        ELSE Loaded(key, use_cache, offline, 1, use_cache, NormalTable(response.rows))

\* the cache directory after the call
FilesAfter(files, call) ==
    IF call.wrote THEN [files EXCEPT ![call.key] = Entry(call.table)] ELSE files

NoLoad ==
    [called |-> FALSE, key |-> <<>>, use_cache |-> FALSE, offline |-> FALSE,
     requests |-> 0, wrote |-> FALSE, outcome |-> "", table |-> <<>>]

----------------------------------------------------------------------------
(* Specifications.  Each fixes the arguments of one operation at            *)
(* construction and then applies the operation; the variables of the other *)
(* operations stay idle.                                                    *)

PolicyIdle ==
    /\ regime_id = 0
    /\ regime_probs = <<>>
    /\ policy = [called |-> FALSE, regime_name |-> "", confidence |-> 0, regime_id |-> 0]

SeverityIdle ==
    /\ sev_event = MacroEvent(<<>>, 0, 1)
    /\ sev_result = [called |-> FALSE, severity |-> 0, tighten |-> FALSE]

OverlayIdle ==
    /\ cfg = DefaultBaseRiskMultiplier
    /\ regime = [regime_name |-> "risk_on", confidence |-> 550]
    /\ macro_events = <<>>
    /\ company_events = <<>>
    /\ portfolio_symbols = <<>>
    /\ clock = 0
    /\ last = NoCall

PipelineIdle ==
    /\ pipe_in = [ticker |-> <<>>, n_regimes |-> [given |-> FALSE, value |-> 0],
                  px |-> [ok |-> FALSE, rows |-> 0], mkt |-> [ok |-> FALSE, rows |-> 0],
                  first_cluster |-> 0,
                  latest |-> [p_max |-> 1000, vol_20d |-> 0, vol_60d |-> 0, dd_252d |-> 0],
                  news |-> [throws |-> "", summary |-> NewsSummary(0, 0, <<>>, "")]]
    /\ pipe = NoRun
    /\ calendar = NoCalendarCall

WatchIdle ==
    /\ latest_row = [probs |-> <<>>, vol_20d |-> 0, vol_60d |-> 0, dd_252d |-> 0]
    /\ news_meta = NewsSummary(0, 0, <<>>, "")
    /\ flags = [called |-> FALSE, list |-> <<>>]

FusionIdle ==
    /\ regime_df = <<>>
    /\ ret_1d = <<>>
    /\ horizons = <<>>
    /\ out = <<>>

LoaderIdle ==
    /\ cache = <<>>
    /\ load = NoLoad

(* The overlay engine: an engine and the arguments of its decide calls are  *)
(* chosen, and decide is called repeatedly while the clock advances.        *)
Init ==
    /\ cfg \in ConfigSet
    /\ regime \in RegimeStates
    /\ macro_events \in SeqsUpTo(MacroPool, MaxMacro)
    /\ company_events \in SeqsUpTo(CompanyPool, MaxCompany)
    /\ portfolio_symbols \in SymbolLists
    /\ clock = 0
    /\ last = NoCall
    /\ PolicyIdle
    /\ SeverityIdle
    /\ PipelineIdle
    /\ WatchIdle
    /\ FusionIdle
    /\ LoaderIdle

\* EventOverlayEngine.decide: each _within_window call reads the clock
Decide ==
    \E now_macro \in _utc_now(clock) :
        \E now_company \in _utc_now(now_macro) :
            /\ last' = decide(regime, macro_events, company_events, portfolio_symbols,
                              now_macro, now_company)
            /\ clock' = now_company
            /\ UNCHANGED <<cfg, regime, macro_events, company_events, portfolio_symbols>>
            /\ UNCHANGED <<policyVars, severityVars>>
            /\ UNCHANGED <<pipelineVars, watchVars, fusionVars, loaderVars>>

Next == Decide

Spec == Init /\ [][Next]_vars

(* The policy mapper applied to a hard label and a probability vector *)
MaxRegimes == 3

RegimeIds == (-1)..MaxRegimes

Probabilities == {0, 200, 400, 401, 599, 600, 1000}

RECURSIVE SumOfSeq(_)
SumOfSeq(q) == IF q = <<>> THEN 0 ELSE Head(q) + SumOfSeq(Tail(q))

\* the probability vectors of a fit sum to 1; a report without them gives none
ProbabilityVectors ==
    { q \in SeqsUpTo(Probabilities, MaxRegimes) : q = <<>> \/ SumOfSeq(q) = 1000 }

InitPolicy ==
    /\ regime_id \in RegimeIds
    /\ regime_probs \in ProbabilityVectors
    /\ policy = [called |-> FALSE, regime_name |-> "", confidence |-> 0, regime_id |-> 0]
    /\ OverlayIdle
    /\ SeverityIdle
    /\ PipelineIdle
    /\ WatchIdle
    /\ FusionIdle
    /\ LoaderIdle

MapRegimeToPolicy ==
    /\ policy' = map_regime_to_policy(regime_id, regime_probs)
    /\ UNCHANGED <<regime_id, regime_probs, overlayVars, severityVars>>
    /\ UNCHANGED <<pipelineVars, watchVars, fusionVars, loaderVars>>

NextPolicy == MapRegimeToPolicy

SpecPolicy == InitPolicy /\ [][NextPolicy]_vars

(* The severity score and the tighten-stops test applied to one macro event *)
MaxImportance == 4

Importances == (-1)..MaxImportance

EventNames ==
    { <<>>,
      <<"F","e","d"," ","R","a","t","e">>,
      <<"f","o","m","c">>,
      <<"G","D","P">>,
      <<"c","p","i">>,
      <<"C","o","r","p","o","r","a","t","e">>,
      <<"R","e","t","a","i","l">>,
      <<"J","o","b","s">>,
      <<"N","o","n","f","a","r","m">> }

InitSeverity ==
    /\ sev_event \in { MacroEvent(n, 0, i) : n \in EventNames, i \in Importances }
    /\ sev_result = [called |-> FALSE, severity |-> 0, tighten |-> FALSE]
    /\ OverlayIdle
    /\ PolicyIdle
    /\ PipelineIdle
    /\ WatchIdle
    /\ FusionIdle
    /\ LoaderIdle

Score ==
    /\ sev_result' = [called |-> TRUE,
                      severity |-> _macro_severity(sev_event),
                      tighten |-> _tighten_stops(<<sev_event>>)]
    /\ UNCHANGED <<sev_event, overlayVars, policyVars>>
    /\ UNCHANGED <<pipelineVars, watchVars, fusionVars, loaderVars>>

NextSeverity == Score

SpecSeverity == InitSeverity /\ [][NextSeverity]_vars

(* The pipeline run once on the tables, the fit and the news that its       *)
(* collaborators hand it, through a direct call or a request surface; and a *)
(* macro-calendar query.  The early stages are explored with a sound fit    *)
(* and quiet news, the fit and the news with sound tables.                  *)
MaxClusters == 4

RegimeArgs ==
    {[given |-> FALSE, value |-> 0]}
        \cup {[given |-> TRUE, value |-> n] : n \in 1..MaxClusters}

Table(ok, rows) == [ok |-> ok, rows |-> rows]

PriceTables ==
    {Table(FALSE, 0)} \cup {Table(TRUE, r) : r \in {59, 60, 310, 311, 312}}

MarketTables ==
    {Table(FALSE, 0)} \cup {Table(TRUE, r) : r \in {59, 60, 61, 400}}

\* the size of component 0 in the fit: empty, 3 rows, a third of 60
FirstClusters == {0, 3, 20}

CalmRow == [p_max |-> 600, vol_20d |-> 115, vol_60d |-> 100, dd_252d |-> 0 - 20]
StressedRow == [p_max |-> 599, vol_20d |-> 116, vol_60d |-> 100, dd_252d |-> 0 - 21]

QuietNews ==
    NewsSummary(1, 1, <<TopicItem("earnings", 1), TopicItem("regulation", 0),
                        TopicItem("security", 0), TopicItem("macro", 1)>>, "")

RiskyNews ==
    NewsSummary(0 - 2, 2, <<TopicItem("earnings", 2), TopicItem("regulation", 2),
                            TopicItem("security", 0), TopicItem("macro", 1)>>, "")

NewsOutcomes == [throws : {"", "fetch", "score", "summarize"},
                 summary : {QuietNews, RiskyNews}]

PipelineInput(n, px, mkt, first, latest, news) ==
    [ticker |-> <<"a","b">>, n_regimes |-> n, px |-> px, mkt |-> mkt,
     first_cluster |-> first, latest |-> latest, news |-> news]

GuardInputs ==
    { PipelineInput(n, px, mkt, 20, CalmRow, [throws |-> "", summary |-> QuietNews]) :
        n \in RegimeArgs, px \in PriceTables, mkt \in MarketTables }

ReportInputs ==
    { PipelineInput(n, Table(TRUE, r), Table(TRUE, 400), first, latest, news) :
        n \in { a \in RegimeArgs : a.value \in {0, 2, 3} }, r \in {311, 312},
        first \in FirstClusters, latest \in {CalmRow, StressedRow},
        news \in NewsOutcomes }

ImportanceArgs ==
    {[given |-> FALSE, value |-> 0]}
        \cup {[given |-> TRUE, value |-> i] : i \in Importances}

CalendarRow(date_ok, importance) == [date_ok |-> date_ok, importance |-> importance]

CalendarResponses ==
    { [status_code |-> 500, is_list |-> TRUE, rows |-> <<>>],
      [status_code |-> 200, is_list |-> FALSE, rows |-> <<>>] }
    \cup { [status_code |-> 200, is_list |-> TRUE, rows |-> r] :
            r \in { <<>>, <<CalendarRow(FALSE, 2)>>, <<CalendarRow(TRUE, 0)>>,
                    <<CalendarRow(TRUE, 2), CalendarRow(TRUE, 5)>> } }

InitPipeline ==
    /\ pipe_in \in GuardInputs \cup ReportInputs
    /\ pipe = NoRun
    /\ calendar = NoCalendarCall
    /\ OverlayIdle
    /\ PolicyIdle
    /\ SeverityIdle
    /\ WatchIdle
    /\ FusionIdle
    /\ LoaderIdle

\* run_pipeline called directly; n_regimes defaults to 3
RunPipeline ==
    LET n == IF pipe_in.n_regimes.given THEN pipe_in.n_regimes.value ELSE DefaultRegimes
    IN  /\ pipe' = RunRecord("direct", n, run_pipeline(pipe_in.ticker, n, pipe_in))
        /\ UNCHANGED <<pipe_in, calendar>>
        /\ UNCHANGED <<overlayVars, policyVars, severityVars, watchVars, fusionVars,
                       loaderVars>>

\* run_pipeline.py main: --n_regimes defaults to 4; the report is printed
main ==
    LET n == IF pipe_in.n_regimes.given THEN pipe_in.n_regimes.value
             ELSE CliDefaultRegimes
    IN  /\ pipe' = RunRecord("cli", n, run_pipeline(Upper(pipe_in.ticker), n, pipe_in))
        /\ UNCHANGED <<pipe_in, calendar>>
        /\ UNCHANGED <<overlayVars, policyVars, severityVars, watchVars, fusionVars,
                       loaderVars>>

\* api_server.py run: the request carries no cluster count; the report is the
\* response, an exception a 500
run ==
    /\ pipe' = RunRecord("api", DefaultRegimes,
                         run_pipeline(Upper(pipe_in.ticker), DefaultRegimes, pipe_in))
    /\ UNCHANGED <<pipe_in, calendar>>
    /\ UNCHANGED <<overlayVars, policyVars, severityVars, watchVars, fusionVars,
                   loaderVars>>

GetCalendar ==
    \E importance \in ImportanceArgs :
        \E response \in CalendarResponses :
            /\ calendar' = get_calendar(importance, response)
            /\ UNCHANGED <<pipe_in, pipe>>
            /\ UNCHANGED <<overlayVars, policyVars, severityVars, watchVars, fusionVars,
                           loaderVars>>

NextPipeline == RunPipeline \/ main \/ run \/ GetCalendar

SpecPipeline == InitPipeline /\ [][NextPipeline]_vars

(* The watchout flagger applied to a latest row and a news summary *)
MaxNewsRisk == 2
MaxTopics == 2

TopicPool ==
    { TopicItem("earnings", 1), TopicItem("earnings", 2),
      TopicItem("macro", 2), TopicItem("security", 3) }

\* a mapping holds each topic once
TopicMappings ==
    { t \in SeqsUpTo(TopicPool, MaxTopics) :
        \A i, j \in DOMAIN t : i # j => t[i].topic # t[j].topic }

PosteriorRows == { p \in ProbabilityVectors : Len(p) >= 2 }

InitWatchouts ==
    /\ latest_row \in [probs : PosteriorRows, vol_20d : {115, 116}, vol_60d : {100},
                       dd_252d : {0 - 21, 0 - 20}]
    /\ news_meta \in { NewsSummary(0, r, t, "") : r \in 0..MaxNewsRisk, t \in TopicMappings }
    /\ flags = [called |-> FALSE, list |-> <<>>]
    /\ OverlayIdle
    /\ PolicyIdle
    /\ SeverityIdle
    /\ PipelineIdle
    /\ FusionIdle
    /\ LoaderIdle

Watchouts ==
    /\ flags' = [called |-> TRUE, list |-> watchouts(latest_row, news_meta)]
    /\ UNCHANGED <<latest_row, news_meta>>
    /\ UNCHANGED <<overlayVars, policyVars, severityVars, pipelineVars, fusionVars,
                   loaderVars>>

NextWatchouts == Watchouts

SpecWatchouts == InitWatchouts /\ [][NextWatchouts]_vars

(* The quantile fusion applied to a labelled history and its return series *)
MaxRows == 3
MaxHorizon == 3

ReturnValues == {0 - 1, 0, 2}
Labels == {0, 1}

InitFusion ==
    /\ \E n \in 1..MaxRows :
          /\ ret_1d \in [1..n -> { Num(x) : x \in ReturnValues }]
          /\ regime_df \in [1..n -> Labels]
    /\ horizons \in { <<a, b>> : a \in 1..MaxHorizon, b \in 1..MaxHorizon }
    /\ out = <<>>
    /\ OverlayIdle
    /\ PolicyIdle
    /\ SeverityIdle
    /\ PipelineIdle
    /\ WatchIdle
    /\ LoaderIdle

RegimeConditionedQuantiles ==
    /\ out' = regime_conditioned_quantiles(regime_df, ret_1d, horizons)
    /\ UNCHANGED <<regime_df, ret_1d, horizons>>
    /\ UNCHANGED <<overlayVars, policyVars, severityVars, pipelineVars, watchVars,
                   loaderVars>>

NextFusion == RegimeConditionedQuantiles

SpecFusion == InitFusion /\ [][NextFusion]_vars

(* The price loader called again and again on one cache directory, which   *)
(* starts empty                                                             *)
Tickers == { <<"a","b">>, <<"A","B"," ">>, <<"c","d">> }

Keys == { _cache_path(NormalTicker(t)) : t \in Tickers }

RemoteResponses ==
    { [status_code |-> 500, rows |-> <<>>],
      [status_code |-> 200, rows |-> <<>>],
      [status_code |-> 200, rows |-> <<2, 1>>],
      [status_code |-> 200, rows |-> <<1, 0>>] }

InitLoader ==
    /\ cache = [k \in Keys |-> NoEntry]
    /\ load = NoLoad
    /\ OverlayIdle
    /\ PolicyIdle
    /\ SeverityIdle
    /\ PipelineIdle
    /\ WatchIdle
    /\ FusionIdle

LoadPrices ==
    \E ticker \in Tickers, use_cache \in BOOLEAN, offline \in BOOLEAN,
       api_key \in BOOLEAN, response \in RemoteResponses :
        LET call == load_prices(cache, ticker, use_cache, offline, api_key, response)
        IN  /\ load' = call
            /\ cache' = FilesAfter(cache, call)
            /\ UNCHANGED <<overlayVars, policyVars, severityVars, pipelineVars,
                           watchVars, fusionVars>>

NextLoader == LoadPrices

SpecLoader == InitLoader /\ [][NextLoader]_vars

(* The overlay engine applied to macro events of every importance a caller  *)
(* can put in a MacroEvent, under the default OverlayConfig                 *)

\* in-window and out-of-window macro events: catalysts of importance 1, 2, 3
\* and 4, and a high-severity release that is no tighten-stop catalyst
GatePool ==
    { MacroEvent(<<"F","O","M","C">>, 0, 4),
      MacroEvent(<<"C","P","I">>, 1, 2),
      MacroEvent(<<"F","e","d"," ","R","a","t","e">>, MacroEnd0 + 1, 3),
      MacroEvent(<<"J","o","b","s">>, MacroEnd0, 3),
      MacroEvent(<<"n","f","p">>, 0, 1) }

InitGate ==
    /\ cfg = DefaultBaseRiskMultiplier
    /\ regime \in RegimeStates
    /\ macro_events \in SeqsUpTo(GatePool, MaxMacro)
    /\ company_events \in SeqsUpTo(CompanyPool, MaxCompany)
    /\ portfolio_symbols = <<>>
    /\ clock = 0
    /\ last = NoCall
    /\ PolicyIdle
    /\ SeverityIdle
    /\ PipelineIdle
    /\ WatchIdle
    /\ FusionIdle
    /\ LoaderIdle

NextGate == Decide

SpecGate == InitGate /\ [][NextGate]_vars

----------------------------------------------------------------------------
(* Vocabulary of the claims, stated on the arguments of a call rather than  *)
(* on the engine's intermediate values.                                     *)

\* t lies in [now, now + days], both ends included
WithinDays(e, now, days) ==
    /\ e.datetime_utc # NoTime
    /\ now <= e.datetime_utc
    /\ e.datetime_utc <= now + days * TicksPerDay

\* the macro events of the call that lie in the macro window of its reading
MacroInWindow ==
    { i \in DOMAIN macro_events :
        WithinDays(macro_events[i], last.now_macro, macro_window_days) }

\* the company events of the call that lie in the company window of its reading
CompanyInWindow ==
    { i \in DOMAIN company_events :
        WithinDays(company_events[i], last.now_company, company_window_days) }

Occurrences(q, e) == Cardinality({ i \in DOMAIN q : q[i] = e })

Ascending(q) ==
    \A i, j \in DOMAIN q : i < j => q[i].datetime_utc <= q[j].datetime_utc

\* the worst severity among the in-window macro events (0 when there is none)
WorstInWindow ==
    IF MacroInWindow = {} THEN 0
    ELSE CHOOSE x \in { _macro_severity(macro_events[i]) : i \in MacroInWindow } :
            \A i \in MacroInWindow : _macro_severity(macro_events[i]) <= x

\* the regime's base multiplier in the default table (0.75 for an unmapped name)
DefaultBase(name) ==
    FromHundredths(CASE name = "risk_on" -> 100
                     [] name = "late_cycle" -> 85
                     [] name = "transition" -> 70
                     [] name = "risk_off" -> 50
                     [] OTHER -> 75)

----------------------------------------------------------------------------
(* Claims *)

\* C1: every decide call returns a risk_multiplier r with 0.10 <= r <= 1.25,
\* whatever the regime, the events, the symbols and the base table.
C1_RiskMultiplierInRange ==
    last.called =>
        /\ FromHundredths(10) <= last.risk_multiplier
        /\ last.risk_multiplier <= FromHundredths(125)

\* C1 witness: a call whose running multiplier left the range and was clamped.
C1_Witness ==
    /\ last.called
    /\ last.after_conf > FromHundredths(125)
    /\ last.risk_multiplier = FromHundredths(125)

C3_GatingFirstMatchWins ==
    last.called =>
        LET s == WorstInWindow
            some == MacroInWindow # {}
            name == regime.regime_name
        IN  /\ (some /\ name = "risk_off" /\ s >= 70) =>
                    /\ ~last.allow_new_positions
                    /\ last.after_macro = Times(last.seed, 70)
            /\ (some /\ name = "transition" /\ s >= 70) =>
                    /\ ~last.allow_new_positions
                    /\ last.after_macro = Times(last.seed, 80)
            /\ (some /\ name \notin {"risk_off", "transition"} /\ s >= 85) =>
                    /\ last.allow_new_positions
                    /\ last.after_macro = Times(last.seed, 85)
            /\ (~some \/ (s < 85 /\ (s < 70 \/ name \notin {"risk_off", "transition"}))) =>
                    /\ last.allow_new_positions
                    /\ last.after_macro = last.seed
            /\ (/\ name = "risk_off"
                /\ cfg = DefaultBaseRiskMultiplier
                /\ \E i \in MacroInWindow :
                      /\ macro_events[i].importance = 3
                      /\ macro_events[i].event = <<"F","e","d"," ","R","a","t","e">>) =>
                    /\ s = 100
                    /\ ~last.allow_new_positions
                    /\ last.after_macro = FromHundredths(35)

\* C3 witness: risk_off with the importance-3 rate event in window, blocked at 0.35.
C3_Witness ==
    /\ last.called
    /\ regime.regime_name = "risk_off"
    /\ cfg = DefaultBaseRiskMultiplier
    /\ \E i \in MacroInWindow : macro_events[i].importance = 3
    /\ ~last.allow_new_positions
    /\ last.after_macro = FromHundredths(35)

\* C4: for both lists decide considers exactly the events with
\* now <= t <= now + window_days (both ends included), in ascending timestamp
\* order, and events outside the window change no field of the decision.
C4_WindowInclusiveAndFramed ==
    last.called =>
        /\ \A e \in MacroPool :
              Occurrences(last.upcoming_macro, e)
                = Cardinality({ i \in MacroInWindow : macro_events[i] = e })
        /\ \A e \in CompanyPool :
              Occurrences(last.upcoming_company, e)
                = Cardinality({ i \in CompanyInWindow : company_events[i] = e })
        /\ Ascending(last.upcoming_macro)
        /\ Ascending(last.upcoming_company)
        /\ Decision(last)
             = Decision(decide(regime,
                               SelectSeq(macro_events,
                                   LAMBDA e : WithinDays(e, last.now_macro, macro_window_days)),
                               SelectSeq(company_events,
                                   LAMBDA e : WithinDays(e, last.now_company, company_window_days)),
                               portfolio_symbols, last.now_macro, last.now_company))

\* C4 witness: a call with one macro event exactly at now + window_days, which
\* it kept, and one a tick later, which it dropped.
C4_Witness ==
    /\ last.called
    /\ \E i \in DOMAIN macro_events :
          /\ macro_events[i].datetime_utc = last.now_macro + macro_window_days * TicksPerDay
          /\ Occurrences(last.upcoming_macro, macro_events[i]) = 1
    /\ \E j \in DOMAIN macro_events :
          /\ macro_events[j].datetime_utc = last.now_macro + macro_window_days * TicksPerDay + 1
          /\ Occurrences(last.upcoming_macro, macro_events[j]) = 0

\* C5: _macro_severity returns a value in [0,1]: the table base of the event's
\* importance (1 -> 0.25, 2 -> 0.55, 3 -> 0.85, any other value -> 0.35), plus
\* 0.15 capped at 1.0 when the uppercased name contains a high-severity keyword.
C5_SeverityFromImportanceTable ==
    sev_result.called =>
        LET imp == sev_event.importance
            base == CASE imp = 1 -> 25 [] imp = 2 -> 55 [] imp = 3 -> 85 [] OTHER -> 35
            keyword == \E k \in high_severity_keywords : Contains(Upper(sev_event.event), k)
        IN  /\ sev_result.severity \in 0..100
            /\ sev_result.severity = IF keyword THEN Min2(100, base + 15) ELSE base

\* C6: tighten_stops is True exactly when some macro event inside the macro
\* window has importance >= 2 and an uppercased name containing a tighten-stop
\* keyword (hence False when no macro event is in window).
C6_TightenStopsIffCatalystInWindow ==
    last.called =>
        (last.tighten_stops <=>
            \E i \in MacroInWindow :
                /\ macro_events[i].importance >= 2
                /\ \E k \in tighten_stop_keywords :
                      Contains(Upper(macro_events[i].event), k))

\* C6 witness: stops are tightened although new positions stay allowed and the
\* regime is neither risk_off nor transition.
C6_Witness ==
    /\ last.called
    /\ last.tighten_stops
    /\ regime.regime_name = "risk_on"
    /\ last.allow_new_positions

\* the portfolio holds the symbol, comparing case-normalized
InPortfolio(symbol) ==
    \/ portfolio_symbols = <<>>
    \/ \E i \in DOMAIN portfolio_symbols :
          /\ Strip(portfolio_symbols[i]) # <<>>
          /\ Strip(Upper(portfolio_symbols[i])) = Strip(Upper(symbol))

\* C7: the company step multiplies the running multiplier by 0.90 (late_cycle,
\* transition) or 0.85 (risk_off), and by nothing otherwise, exactly when some
\* in-window company event is of type earnings and its symbol belongs to the
\* portfolio symbols (case-normalized; every symbol when they are empty).
C7_EarningsHaircutForPortfolioSymbols ==
    last.called =>
        LET hit == \E i \in CompanyInWindow :
                      /\ company_events[i].event_type = "earnings"
                      /\ InPortfolio(company_events[i].symbol)
            name == regime.regime_name
        IN  last.after_company =
                IF hit /\ name \in {"late_cycle", "transition"} THEN Times(last.after_macro, 90)
                ELSE IF hit /\ name = "risk_off" THEN Times(last.after_macro, 85)
                ELSE last.after_macro

\* the number of clusters of the fit: one probability per cluster
ClusterCount == Len(regime_probs)

\* C8: with confidence >= 0.60 the regime is named from the table of the fit's
\* cluster count: 3 clusters 0 -> risk_on, 1 -> late_cycle, 2 -> risk_off;
\* 2 clusters 0 -> risk_on, 1 -> risk_off.
C8_NameFromTableOfClusterCount ==
    (policy.called /\ policy.confidence >= 600) =>
        /\ (ClusterCount = 3 /\ regime_id \in 0..2) =>
              policy.regime_name =
                  (CASE regime_id = 0 -> "risk_on"
                     [] regime_id = 1 -> "late_cycle"
                     [] OTHER -> "risk_off")
        /\ (ClusterCount = 2 /\ regime_id \in 0..1) =>
              policy.regime_name = (IF regime_id = 0 THEN "risk_on" ELSE "risk_off")

\* C9: confidence is the largest supplied probability (0 when none is
\* supplied); the name is transition when confidence < 0.60 and when the label
\* is absent from the table of the fit's cluster count; the name is always one
\* of risk_on, late_cycle, risk_off, transition.
C9_ConfidenceAndSafeDefault ==
    policy.called =>
        /\ policy.confidence \in 0..1000
        /\ \A i \in DOMAIN regime_probs : regime_probs[i] <= policy.confidence
        /\ (regime_probs = <<>> => policy.confidence = 0)
        /\ (regime_probs # <<>> =>
              \E i \in DOMAIN regime_probs : regime_probs[i] = policy.confidence)
        /\ (policy.confidence < 600 => policy.regime_name = "transition")
        /\ (ClusterCount = 3 /\ regime_id \notin 0..2) => policy.regime_name = "transition"
        /\ (ClusterCount = 2 /\ regime_id \notin 0..1) => policy.regime_name = "transition"
        /\ policy.regime_name \in {"risk_on", "late_cycle", "risk_off", "transition"}

\* C10: with the default table and confidence >= 0.55, a call with no macro
\* event in the macro window and no company event in the company window
\* allows new positions, does not tighten stops and returns the regime's base
\* multiplier (0.75 for an unmapped name).
C10_NoEventsNoAdjustment ==
    (/\ last.called
     /\ cfg = DefaultBaseRiskMultiplier
     /\ regime.confidence >= 550
     /\ MacroInWindow = {}
     /\ CompanyInWindow = {}) =>
        /\ last.allow_new_positions
        /\ ~last.tighten_stops
        /\ last.risk_multiplier = DefaultBase(regime.regime_name)

\* C10 witness: such a call, made with events that all lie outside the windows
\* and a confidence of exactly 0.55.
C10_Witness ==
    /\ last.called
    /\ cfg = DefaultBaseRiskMultiplier
    /\ regime.confidence = 550
    /\ MacroInWindow = {}
    /\ CompanyInWindow = {}
    /\ macro_events # <<>>
    /\ company_events # <<>>
    /\ last.risk_multiplier = DefaultBase(regime.regime_name)

\* the call blocks new positions in its macro step: a risk_off or transition
\* regime with a worst in-window severity of at least 0.70
MacroStepBlocks ==
    /\ MacroInWindow # {}
    /\ regime.regime_name \in {"risk_off", "transition"}
    /\ WorstInWindow >= 70

\* the call tightens stops in its macro step
MacroStepTightens ==
    \E i \in MacroInWindow :
        /\ macro_events[i].importance >= 2
        /\ \E k \in tighten_stop_keywords : Contains(Upper(macro_events[i].event), k)

\* C11: decide multiplies the running multiplier by 0.92 exactly when
\* regime.confidence < 0.55 (not at 0.55 itself), whatever the regime name and
\* whatever the macro and company steps did; allow_new_positions and
\* tighten_stops are what the macro step made them, whatever the confidence.
C11_ConfidenceStepBelowThreshold ==
    last.called =>
        /\ (regime.confidence < 550) => last.after_conf = Times(last.after_company, 92)
        /\ (regime.confidence >= 550) => last.after_conf = last.after_company
        /\ last.allow_new_positions = ~MacroStepBlocks
        /\ last.tighten_stops = MacroStepTightens

\* C11 witness: a call at confidence 0.549 whose macro step blocked and
\* tightened and whose company step applied a haircut, the 0.92 on top of both.
C11_Witness ==
    /\ last.called
    /\ regime.confidence = 549
    /\ last.after_macro # last.seed
    /\ last.after_company # last.after_macro
    /\ last.after_conf = Times(last.after_company, 92)
    /\ ~last.allow_new_positions
    /\ last.tighten_stops

\* every instant a window could be measured from with a different outcome:
\* before the first, no event of the pools is in any window; after the last,
\* every event of the pools lies in the past
EvaluationInstants ==
    (0 - timedelta(company_window_days) - 1)
        .. (MaxClock + timedelta(company_window_days) + 2)

\* the event is in the list
Kept(e, upcoming) == \E j \in DOMAIN upcoming : upcoming[j] = e

\* C19: within one decide call both windows are measured from the same
\* instant: there is a single now such that the macro events kept are those
\* with now <= t <= now + macro_window_days and the company events kept are
\* those with now <= t <= now + company_window_days, even if the clock
\* advances while the call runs.
C19_SingleEvaluationInstant ==
    last.called =>
        \E now \in EvaluationInstants :
            /\ \A i \in DOMAIN macro_events :
                  Kept(macro_events[i], last.upcoming_macro)
                      <=> WithinDays(macro_events[i], now, macro_window_days)
            /\ \A i \in DOMAIN company_events :
                  Kept(company_events[i], last.upcoming_company)
                      <=> WithinDays(company_events[i], now, company_window_days)

\* the run held both price tables: its cluster count was accepted and neither
\* load raised
TablesLoaded ==
    /\ pipe.called
    /\ pipe.n_regimes \in {2, 3}
    /\ pipe_in.px.ok
    /\ pipe_in.mkt.ok

\* the rows of the trimmed and aligned feature table of the run
FeatureTableRows ==
    AlignedRows(build_features(pipe_in.px.rows, pipe_in.mkt.rows), 0)

\* C12: run_pipeline aborts with an insufficient-data error, and never calls
\* the regime fit, whenever the target price table, the market-proxy price
\* table or the trimmed and aligned feature table has fewer than 60 rows; the
\* error states the row count observed and the minimum required.
C12_TooFewRowsAbortsBeforeFit ==
    TablesLoaded =>
        LET px == pipe_in.px.rows
            mkt == pipe_in.mkt.rows
            observed == IF px < 60 THEN px ELSE IF mkt < 60 THEN mkt ELSE FeatureTableRows
        IN  (px < 60 \/ mkt < 60 \/ FeatureTableRows < 60) =>
                /\ pipe.outcome = "raised"
                /\ pipe.error.kind = "ValueError"
                /\ pipe.error.stage \in {"target", "market", "features", "aligned"}
                /\ ~pipe.fit_called
                /\ pipe.error.has_got
                /\ pipe.error.got = observed
                /\ pipe.error.has_need
                /\ pipe.error.need = 60

\* C12 witness: both price tables are long enough and the feature table is
\* one row short; the run aborted naming 59 and 60.
C12_Witness ==
    /\ TablesLoaded
    /\ pipe_in.px.rows >= 60
    /\ pipe_in.mkt.rows >= 60
    /\ FeatureTableRows = 59
    /\ pipe.outcome = "raised"
    /\ pipe.error.got = 59
    /\ pipe.error.need = 60
    /\ ~pipe.fit_called

\* C13: configuration errors are raised before any fetch: run_pipeline
\* rejects a cluster count outside {2,3} before the first price or news fetch,
\* and the macro-calendar adapter rejects an importance filter outside
\* {1,2,3} before issuing its HTTP request.
C13_ConfigurationRejectedBeforeFetch ==
    /\ (pipe.called /\ pipe.n_regimes \notin {2, 3}) =>
            /\ pipe.outcome = "raised"
            /\ pipe.error.kind = "ValueError"
            /\ pipe.error.stage = "n_regimes"
            /\ pipe.fetches = <<>>
            /\ ~pipe.fit_called
    /\ (calendar.called /\ calendar.importance.given
            /\ calendar.importance.value \notin {1, 2, 3}) =>
            /\ calendar.outcome = "ValueError"
            /\ calendar.requests = 0

\* C13 witness: a run asked for 4 clusters although its tables were sound, and
\* a calendar query asked for importance 4; both were rejected.
C13_Witness ==
    /\ pipe.called
    /\ pipe.n_regimes = 4
    /\ pipe_in.px.ok
    /\ pipe_in.px.rows >= 60
    /\ pipe.outcome = "raised"
    /\ calendar.called
    /\ calendar.importance = [given |-> TRUE, value |-> 4]
    /\ calendar.outcome = "ValueError"

\* the keys of the output contract
OutputContractKeys ==
    {"ticker", "asof", "regime", "regime_probs", "expected_ranges_logret",
     "news", "watchouts", "n_rows_used"}

\* the flags that come from the news summary
NewsFlagKinds == {"Multiple risk headlines recently", "News topic cluster"}

\* C14: if the news fetch, scoring or summarizing step throws, run_pipeline
\* does not abort: it returns a report with every output-contract key, whose
\* news summary has news_sentiment = 0, news_risk = 0 and empty topics and
\* whose watchouts contain no news-derived flag.
C14_NewsFailureDegradesToZeroedSummary ==
    (pipe.called /\ pipe.fit_called /\ pipe_in.news.throws # "") =>
        /\ pipe.outcome = "returned"
        /\ OutputContractKeys \subseteq DOMAIN pipe.report
        /\ pipe.report.news.news_sentiment = 0
        /\ pipe.report.news.news_risk = 0
        /\ pipe.report.news.topics = <<>>
        /\ \A i \in DOMAIN pipe.report.watchouts :
              pipe.report.watchouts[i].kind \notin NewsFlagKinds

\* C14 witness: scoring threw on news that would have raised both news flags;
\* the report still carries the flags of the latest row.
C14_Witness ==
    /\ pipe.called
    /\ pipe.fit_called
    /\ pipe_in.news.throws = "score"
    /\ pipe_in.news.summary.news_risk >= 2
    /\ pipe.outcome = "returned"
    /\ Len(pipe.report.watchouts) = 3

\* C15 (as stated): whenever the smallest of the K fitted clusters holds under
\* 5% of the fitted rows, run_pipeline still returns a report whose warning is
\* set; when every one of the K clusters holds at least 5% of the rows the
\* warning is null.
C15_WarningIffSmallestClusterUnderFivePercent ==
    (pipe.called /\ pipe.fit_called) =>
        LET rows == pipe.report.n_rows_used
            sizes == ClusterSizes(pipe.n_regimes, rows, pipe_in.first_cluster)
            under == \E k \in DOMAIN sizes : sizes[k] * 20 < rows
        IN  /\ pipe.outcome = "returned"
            /\ under => pipe.report.warning.set
            /\ ~under => ~pipe.report.warning.set

\* the tables the collaborators hand the run pass every row check
SoundTables ==
    /\ pipe_in.px.ok
    /\ pipe_in.mkt.ok
    /\ pipe_in.px.rows >= 60
    /\ pipe_in.mkt.rows >= 60
    /\ FeatureTableRows >= 60

\* C16 (as stated): both request surfaces, given only the documented inputs
\* (no cluster count), invoke run_pipeline with a cluster count the pipeline
\* accepts and deliver the output-contract report.
C16_SurfacesUseAcceptedClusterCount ==
    (pipe.called /\ pipe.surface \in {"cli", "api"} /\ ~pipe_in.n_regimes.given) =>
        /\ pipe.n_regimes \in {2, 3}
        /\ SoundTables =>
              /\ pipe.delivered
              /\ OutputContractKeys \subseteq DOMAIN pipe.report

\* the list holds a flag of the kind
HasFlag(kind) == \E i \in DOMAIN flags.list : flags.list[i].kind = kind

\* the order in which the kinds of flag are emitted
KindsInOrder ==
    <<"Regime uncertainty rising", "Short-term volatility is spiking",
      "In a deep drawdown zone", "Multiple risk headlines recently",
      "News topic cluster">>

Rank(kind) == CHOOSE i \in DOMAIN KindsInOrder : KindsInOrder[i] = kind

\* C17: watchouts emits each flag iff its condition holds: max regime
\* posterior < 0.60; vol_20d > 1.15 x vol_60d; dd_252d < -0.20; news_risk >= 2;
\* one topic-cluster flag per topic whose count >= 2; the flags appear in
\* exactly that order, topic flags in the topic mapping's iteration order; the
\* list is empty when no condition holds.
C17_FlagsIffConditionsInOrder ==
    flags.called =>
        LET list == flags.list
            topical == SelectSeq(list, LAMBDA f : f.kind = "News topic cluster")
            qualifying == SelectSeq(news_meta.topics, LAMBDA t : t.count >= 2)
        IN  /\ HasFlag("Regime uncertainty rising") <=> MaxOfSeq(latest_row.probs) < 600
            /\ HasFlag("Short-term volatility is spiking")
                  <=> latest_row.vol_20d * 100 > 115 * latest_row.vol_60d
            /\ HasFlag("In a deep drawdown zone") <=> latest_row.dd_252d < 0 - 20
            /\ HasFlag("Multiple risk headlines recently") <=> news_meta.news_risk >= 2
            /\ Len(topical) = Len(qualifying)
            /\ \A i \in DOMAIN topical : topical[i].topic = qualifying[i].topic
            /\ \A i, j \in DOMAIN list :
                  i < j => /\ Rank(list[i].kind) <= Rank(list[j].kind)
                           /\ list[i].kind = list[j].kind
                                 => list[i].kind = "News topic cluster"
            /\ \A i \in DOMAIN list : list[i].kind \in { KindsInOrder[k] : k \in 1..5 }

\* C17 witness: all four fixed flags and two topic flags, the topics in the
\* order of a mapping that is not alphabetical.
C17_Witness ==
    /\ flags.called
    /\ Len(flags.list) = 6
    /\ news_meta.topics[1].topic = "security"
    /\ flags.list[5].topic = "security"

\* C18: for every horizon h >= 1 and every row t of a return series of length
\* N, forward_log_return yields ret[t+1] + ... + ret[t+h] (ret[t] excluded)
\* when t + h <= N - 1 and is undefined for exactly the final h rows;
\* regime_conditioned_quantiles drops those rows for horizon h only and groups
\* the remaining rows by their hard regime label.  (Row t is position t + 1.)
C18_ForwardReturnAndGrouping ==
    (out # <<>>) =>
        \A k \in DOMAIN horizons :
            LET h == horizons[k]
                r == out[k]
                N == Len(ret_1d)
            IN  /\ \A i \in 1..N :
                      IF i + h <= N
                      THEN /\ ~r.fwd[i].nan
                           /\ r.fwd[i].v = SumCells(ret_1d, i + 1, i + h)
                      ELSE r.fwd[i].nan
                /\ r.kept = { i \in 1..N : i + h <= N }
                /\ \A g \in r.groups :
                      /\ g.rows # {}
                      /\ g.rows = { i \in r.kept : regime_df[i] = g.regime }
                /\ UNION { g.rows : g \in r.groups } = r.kept

\* C18 witness: three rows and horizons 1 and 2; horizon 1 keeps two rows of
\* different regimes with returns that tell ret[t] from ret[t+1], horizon 2
\* keeps the first row only.
C18_Witness ==
    /\ out # <<>>
    /\ horizons = <<1, 2>>
    /\ Len(ret_1d) = 3
    /\ ret_1d[1].v # ret_1d[2].v
    /\ out[1].kept = {1, 2}
    /\ Cardinality(out[1].groups) = 2
    /\ out[2].kept = {1}
    /\ out[2].fwd[1].v = ret_1d[2].v + ret_1d[3].v

\* C20 (as stated): over any sequence of load_prices calls, a load (with
\* caching enabled) of a symbol whose cache entry exists is served from that
\* entry; every successful remote
\* fetch with caching enabled replaces that symbol's entry with exactly the
\* table it returns; no load changes another symbol's entry; and an offline
\* load with no entry fails without fetching or writing.
C20_CacheReadThroughWriteOnFetch ==
    [][LET k == load'.key
       IN  /\ (cache[k].exists /\ load'.use_cache) =>
                /\ load'.outcome = "returned"
                /\ load'.table = cache[k].table
                /\ load'.requests = 0
           /\ (load'.requests = 1 /\ load'.outcome = "returned" /\ load'.use_cache) =>
                cache'[k] = Entry(load'.table)
           /\ \A o \in Keys \ {k} : cache'[o] = cache[o]
           /\ (load'.offline /\ ~cache[k].exists) =>
                /\ load'.outcome # "returned"
                /\ load'.requests = 0
                /\ cache' = cache]_vars

----------------------------------------------------------------------------
(* The running multiplier under the default OverlayConfig *)

\* 0.50 x 0.70 x 0.85 x 0.92: risk_off, high-severity macro, earnings, low confidence
SmallestMultiplier == Times(Times(Times(FromHundredths(50), 70), 85), 92)

\* C21: with the default OverlayConfig, for every regime name, confidence and
\* event lists, the running multiplier starts at the regime's base multiplier,
\* takes at most one macro factor (0.70, 0.80 or 0.85), one earnings factor
\* (0.90 or 0.85) and one confidence factor (0.92), each <= 1, and so ends
\* between 0.50 x 0.70 x 0.85 x 0.92 and 1.00, inside [0.10, 1.25]: the clamp
\* returns it unchanged and risk_multiplier never exceeds the base multiplier.
C21_DefaultConfigClampIsIdentity ==
    (last.called /\ cfg = DefaultBaseRiskMultiplier) =>
        /\ last.seed = DefaultBase(regime.regime_name)
        /\ last.after_macro \in { last.seed, Times(last.seed, 70),
                                  Times(last.seed, 80), Times(last.seed, 85) }
        /\ last.after_company \in { last.after_macro, Times(last.after_macro, 90),
                                    Times(last.after_macro, 85) }
        /\ last.after_conf \in { last.after_company, Times(last.after_company, 92) }
        /\ last.after_macro <= last.seed
        /\ last.after_company <= last.after_macro
        /\ last.after_conf <= last.after_company
        /\ SmallestMultiplier <= last.after_conf
        /\ last.after_conf <= FromHundredths(100)
        /\ FromHundredths(10) <= last.after_conf
        /\ last.after_conf <= FromHundredths(125)
        /\ last.risk_multiplier = last.after_conf
        /\ last.risk_multiplier <= DefaultBase(regime.regime_name)

\* C21 witness: a default-config risk_off call at confidence 0.549 with a
\* high-severity macro event and an earnings event in their windows, whose
\* running multiplier took all three factors and reached the smallest value,
\* returned unclamped.
C21_Witness ==
    /\ last.called
    /\ cfg = DefaultBaseRiskMultiplier
    /\ regime.regime_name = "risk_off"
    /\ last.worst_sev >= 70
    /\ last.after_macro = Times(last.seed, 70)
    /\ last.after_company = Times(last.after_macro, 85)
    /\ last.after_conf = Times(last.after_company, 92)
    /\ last.after_conf = SmallestMultiplier
    /\ last.risk_multiplier = SmallestMultiplier

====
